---- MODULE Spec2Model ----
(***************************************************************************)
(* Model of the AI enrichment pipeline (src/indexAlgolia.js): the content  *)
(* enricher enrichContentWithAI, the batch processor processArticles, and  *)
(* the two module-level entry points testEnrichment and indexEnrichedData. *)
(*                                                                         *)
(* Text is a sequence of lexical units.  The units of a model response are *)
(* "FENCE" (three backquotes), "json", the line feed, the space, prose "x",*)
(* the braces, the comma, and "M", which stands for the serialised members *)
(* of the response's payload object.  The units of a keywords value are    *)
(* the letters "a", "b", the comma and the space.                          *)
(***************************************************************************)
EXTENDS Integers, Sequences, FiniteSets, TLC

VARIABLES
    file,               \* the source ./data/articles.json, unchanged during a run
    stub,               \* the model: the response generateContent gives for each content
    pc,                 \* per entry point: where its async flow is suspended
    articles,           \* per processArticles invocation: the parsed collection
    idx,                \* per invocation: 1-based position of the for..of loop
    enrichedArticles,   \* per invocation: the local result array
    enrichment,         \* per invocation: the promise of the enrichContentWithAI call in progress
    ret,                \* per invocation: the promise processArticles returned
    exit,               \* per entry point: the promise of testEnrichment / indexEnrichedData
    outstanding,        \* generateContent calls issued and not yet settled
    modelCalls,         \* generateContent calls issued so far
    saveCalls,          \* client.saveObjects calls issued so far
    waitCalls,          \* client.waitForTask calls issued so far
    saveResponse,       \* what client.saveObjects answered (history)
    call                \* a direct call of the exported enrichContentWithAI

vars == <<file, stub, pc, articles, idx, enrichedArticles, enrichment, ret, exit,
          outstanding, modelCalls, saveCalls, waitCalls, saveResponse, call>>

procVars == <<file, stub, pc, articles, idx, enrichedArticles, enrichment, ret, exit,
              outstanding, saveCalls, waitCalls, saveResponse>>

----------------------------------------------------------------------------
(* Bounds *)

MaxArticles == 2
MaxCore == 4
MaxKwLen == 3

----------------------------------------------------------------------------
(* JavaScript values.  t is the type tag, s the units of a string (or the  *)
(* digits of a number), a the elements of an array.                        *)

Str(s) == [t |-> "string", s |-> s, a |-> <<>>]
Num(s) == [t |-> "number", s |-> s, a |-> <<>>]
Arr(a) == [t |-> "array", s |-> <<>>, a |-> a]
Null == [t |-> "null", s |-> <<>>, a |-> <<>>]
Undefined == [t |-> "undefined", s |-> <<>>, a |-> <<>>]

\* ToBoolean: undefined, null, "" and 0 are falsy; arrays and objects are truthy.
Truthy(v) ==
    CASE v.t = "undefined" -> FALSE
      [] v.t = "null" -> FALSE
      [] v.t = "string" -> v.s # <<>>
      [] v.t = "number" -> v.s # <<"0">>
      [] OTHER -> TRUE

\* typeof v
TypeOf(v) ==
    CASE v.t = "undefined" -> "undefined"
      [] v.t = "string" -> "string"
      [] v.t = "number" -> "number"
      [] OTHER -> "object"

\* o.k : the value of a property, undefined when the object has no such key.
Get(o, k) == IF k \in DOMAIN o THEN o[k] ELSE Undefined

\* a || b
OrElse(a, b) == IF Truthy(a) THEN a ELSE b

\* A settled promise.
Resolved(v) == [status |-> "resolved", value |-> v]
Rejected(v) == [status |-> "rejected", value |-> v]
Pending == [status |-> "pending", value |-> Null]

----------------------------------------------------------------------------
(* String functions *)

\* String.prototype.indexOf / lastIndexOf for one unit: 0-based, -1 when absent.
IndexOf(s, c) ==
    IF \E i \in 1..Len(s) : s[i] = c
    THEN (CHOOSE i \in 1..Len(s) : s[i] = c /\ \A j \in 1..(i - 1) : s[j] # c) - 1
    ELSE -1

LastIndexOf(s, c) ==
    IF \E i \in 1..Len(s) : s[i] = c
    THEN (CHOOSE i \in 1..Len(s) : s[i] = c /\ \A j \in (i + 1)..Len(s) : s[j] # c) - 1
    ELSE -1

\* String.prototype.substring(from, to), 0-based, to exclusive, 0 <= from <= to.
Substring(s, from, to) == SubSeq(s, from + 1, to)

WhiteSpace == {" ", "\n"}

\* String.prototype.trim
RECURSIVE TrimStart(_)
TrimStart(s) ==
    IF s # <<>> /\ Head(s) \in WhiteSpace THEN TrimStart(Tail(s)) ELSE s

RECURSIVE TrimEnd(_)
TrimEnd(s) ==
    IF s # <<>> /\ s[Len(s)] \in WhiteSpace THEN TrimEnd(SubSeq(s, 1, Len(s) - 1)) ELSE s

Trim(s) == TrimEnd(TrimStart(s))

\* String.prototype.split(','): the pieces between the separators, in order;
\* a string without separator is one piece, the empty string included.
RECURSIVE Split(_, _)
Split(s, sep) ==
    LET i == IndexOf(s, sep)
    IN  IF i = -1 THEN <<s>>
        ELSE <<Substring(s, 0, i)>> \o Split(Substring(s, i + 1, Len(s)), sep)

\* Array.prototype.map(k => k.trim())
MapTrim(pieces) == [i \in 1..Len(pieces) |-> Trim(pieces[i])]

\* text.replace with the global pattern "fence json LF at the start, or LF fence
\* at the end": the leading match at the start of the string, then, since
\* matches do not overlap, the trailing match at the very end of the rest.
StripFence(text) ==
    LET lead == Len(text) >= 3 /\ SubSeq(text, 1, 3) = <<"FENCE", "json", "\n">>
        rest == IF lead THEN SubSeq(text, 4, Len(text)) ELSE text
        trail == Len(rest) >= 2 /\ SubSeq(rest, Len(rest) - 1, Len(rest)) = <<"\n", "FENCE">>
    IN  IF trail THEN SubSeq(rest, 1, Len(rest) - 2) ELSE rest

\* The units of s that are not in the set drop, in order.
RECURSIVE Without(_, _)
Without(s, drop) ==
    IF s = <<>> THEN <<>>
    ELSE IF Head(s) \in drop THEN Without(Tail(s), drop)
    ELSE <<Head(s)>> \o Without(Tail(s), drop)

\* JSON.parse of an object text: white space is skipped; the text is "{", then
\* nothing or members separated by single commas, then "}".  Every "M" is the
\* members of payload, so a repeated "M" sets the same keys again.
JSONParse(jsonString, payload) ==
    LET w == Without(jsonString, WhiteSpace)
        inner == SubSeq(w, 2, Len(w) - 1)
        members == /\ Len(inner) % 2 = 1
                   /\ \A i \in 1..Len(inner) :
                        inner[i] = (IF i % 2 = 1 THEN "M" ELSE ",")
        ok == /\ Len(w) >= 2
              /\ w[1] = "{"
              /\ w[Len(w)] = "}"
              /\ (inner = <<>> \/ members)
    IN  [ok |-> ok, value |-> IF ok /\ inner # <<>> THEN payload ELSE <<>>]

----------------------------------------------------------------------------
(* The content enricher: enrichContentWithAI *)

\* The result returned on the skip path and on every caught error.
DefaultEnrichment ==
    [summary |-> Null, keywords |-> Arr(<<>>), category |-> Null, sentiment |-> Null]

\* Mutant of InvalidContent: the typeof test is left out.
InvalidContentFalsyOnly(content) == ~Truthy(content)

\* if (!content || typeof content !== 'string')
InvalidContent(content) == ~Truthy(content) \/ TypeOf(content) # "string"

\* The response-shape test: no result, no candidates, no content, no parts, or
\* a first part without (truthy) text.
InvalidShape(result) ==
    \/ result.isNull
    \/ ~result.hasCandidates
    \/ Len(result.candidates) = 0
    \/ ~result.candidates[1].hasContent
    \/ ~result.candidates[1].hasParts
    \/ Len(result.candidates[1].parts) = 0
    \/ ~Truthy(result.candidates[1].parts[1].text)

\* Mutant of EnrichCatch: the handler rethrows.
EnrichCatchRethrow(error) == Rejected(DefaultEnrichment)

\* catch (error) { ...; return {summary: null, keywords: [], ...} }
EnrichCatch(error) == Resolved(DefaultEnrichment)

\* cleanedText = text.replace(...).trim()
CleanedText(text) == Trim(StripFence(text))

JsonStartIndex(cleanedText) == IndexOf(cleanedText, "{")
JsonEndIndex(cleanedText) == LastIndexOf(cleanedText, "}")

\* The boundary test of the if.
HasJsonBoundaries(cleanedText) ==
    /\ JsonStartIndex(cleanedText) # -1
    /\ JsonEndIndex(cleanedText) # -1
    /\ JsonEndIndex(cleanedText) > JsonStartIndex(cleanedText)

\* Mutant of JsonString: the whole cleaned text is parsed.
JsonStringWhole(cleanedText) == cleanedText

\* jsonString = cleanedText.substring(jsonStartIndex, jsonEndIndex + 1)
JsonString(cleanedText) ==
    Substring(cleanedText, JsonStartIndex(cleanedText), JsonEndIndex(cleanedText) + 1)

\* parsedResult.keywords.split is not a function: keywords is truthy but no string.
SplitThrows(parsedResult) ==
    /\ Truthy(Get(parsedResult, "keywords"))
    /\ Get(parsedResult, "keywords").t # "string"

\* The object of the return statement after a successful parse.
Normalized(parsedResult) ==
    [summary   |-> OrElse(Get(parsedResult, "summary"), Null),
     keywords  |-> IF Truthy(Get(parsedResult, "keywords"))
                   THEN Arr(MapTrim(Split(Get(parsedResult, "keywords").s, ",")))
                   ELSE Arr(<<>>),
     category  |-> OrElse(Get(parsedResult, "category"), Null),
     sentiment |-> OrElse(Get(parsedResult, "sentiment"), Null)]

\* From "const text = ..." to the return, for a response of valid shape: the
\* promise enrichContentWithAI settles with.
ExtractAndNormalize(text, payload) ==
    IF text.t # "string" THEN EnrichCatch("text.replace is not a function")
    ELSE IF ~HasJsonBoundaries(CleanedText(text.s))
    THEN EnrichCatch("Could not find valid JSON in Gemini response")
    ELSE LET parsed == JSONParse(JsonString(CleanedText(text.s)), payload)
         IN  IF ~parsed.ok THEN EnrichCatch("SyntaxError")
             ELSE IF SplitThrows(parsed.value)
             THEN EnrichCatch("parsedResult.keywords.split is not a function")
             ELSE Resolved(Normalized(parsed.value))

\* The try block from the point where generateContent settles with response.
EnrichSettle(response) ==
    IF response.kind = "reject" THEN EnrichCatch(response.error)
    ELSE IF InvalidShape(response.result)
    THEN EnrichCatch("Gemini API did not return a valid text candidate.")
    ELSE ExtractAndNormalize(response.result.candidates[1].parts[1].text,
                             response.payload)

----------------------------------------------------------------------------
(* Inputs: record contents, model responses *)

\* All sequences over S of length at most n.
SeqsUpTo(S, n) == UNION {[1..k -> S] : k \in 0..n}

\* article.content values: texts, and values that are absent, empty or no text.
ValidContents == {Str(<<"c1">>), Str(<<"c2">>)}
InvalidContents == {Undefined, Null, Str(<<>>), Num(<<"0">>), Num(<<"42">>), Arr(<<>>)}

\* A key that the object does not have.
Absent == [t |-> "absent", s |-> <<>>, a |-> <<>>]

\* The object with the keys whose value is given.
PayloadOf(su, kw, ca, se) ==
    LET all == [summary |-> su, keywords |-> kw, category |-> ca, sentiment |-> se]
    IN  [k \in {x \in DOMAIN all : all[x] # Absent} |-> all[k]]

\* The payload of the scenario: every key a non-empty text.
FullPayload ==
    PayloadOf(Str(<<"Solar costs dropped.">>), Str(<<"a", ",", " ", "b">>),
              Str(<<"Environment">>), Str(<<"Positive">>))

\* A payload whose keywords are a JSON array rather than a comma-joined text.
ArrayPayload ==
    PayloadOf(Str(<<"Solar costs dropped.">>), Arr(<<<<"a">>, <<"b">>>>),
              Str(<<"Environment">>), Str(<<"Positive">>))

KwTexts == SeqsUpTo({"a", "b", ",", " "}, MaxKwLen)

\* The values a payload key takes; Absent: the payload has no such key.
SummaryValues == {Absent, Str(<<>>), Str(<<"Solar costs dropped.">>)}
KeywordsValues ==
    {Absent, Null, Num(<<"7">>), Arr(<<<<"a">>, <<"b">>>>)} \cup {Str(k) : k \in KwTexts}
CategoryValues == {Absent, Null, Str(<<"Environment">>)}
SentimentValues == {Absent, Str(<<"Positive">>)}

\* Response texts: a core of braces, members, commas and line feeds, between
\* a prefix and a suffix of decoration.
Prefixes == {<<>>, <<"FENCE", "json", "\n">>, <<"FENCE", "\n">>, <<"x", " ">>, <<" ">>}
Suffixes == {<<>>, <<"\n", "FENCE">>, <<"\n", "FENCE", "\n">>, <<" ", "x">>, <<"FENCE">>}
Cores == SeqsUpTo({"{", "}", "M", ",", "\n"}, MaxCore)

\* The scenario's texts: the bare payload, the fenced payload, prose around it.
PayloadTexts ==
    { <<"{", "M", "}">>,
      <<"FENCE", "json", "\n", "{", "M", "}", "\n", "FENCE">>,
      <<"x", " ", "{", "M", "}", " ", "x">> }

\* result.candidates[0].content.parts[0].text = text
ResultOf(text) ==
    [isNull |-> FALSE, hasCandidates |-> TRUE,
     candidates |-> << [hasContent |-> TRUE, hasParts |-> TRUE,
                        parts |-> << [text |-> text] >>] >>]

\* Results without a usable text candidate.
MalformedResults ==
    { [isNull |-> TRUE, hasCandidates |-> FALSE, candidates |-> <<>>],
      [isNull |-> FALSE, hasCandidates |-> FALSE, candidates |-> <<>>],
      [isNull |-> FALSE, hasCandidates |-> TRUE, candidates |-> <<>>],
      [isNull |-> FALSE, hasCandidates |-> TRUE,
       candidates |-> << [hasContent |-> FALSE, hasParts |-> FALSE, parts |-> <<>>] >>],
      [isNull |-> FALSE, hasCandidates |-> TRUE,
       candidates |-> << [hasContent |-> TRUE, hasParts |-> FALSE, parts |-> <<>>] >>],
      [isNull |-> FALSE, hasCandidates |-> TRUE,
       candidates |-> << [hasContent |-> TRUE, hasParts |-> TRUE, parts |-> <<>>] >>],
      ResultOf(Undefined),
      ResultOf(Str(<<>>)) }

\* generateContent resolves with a result / rejects with an error.
Resolve(result, payload) ==
    [kind |-> "resolve", error |-> "", result |-> result, payload |-> payload]
Reject(error) ==
    [kind |-> "reject", error |-> error, result |-> ResultOf(Undefined),
     payload |-> FullPayload]

ModelErrors == {"network", "auth", "rate limit"}

\* Outcomes of a model call without a response text: an error, a result
\* failing the shape check, a text that is no string.
TextlessResponses ==
    {Reject(e) : e \in ModelErrors}
    \cup {Resolve(r, FullPayload) : r \in MalformedResults}
    \cup {Resolve(ResultOf(Num(<<"7">>)), FullPayload)}

----------------------------------------------------------------------------
(* A direct call of the exported enrichContentWithAI(content, objectId) *)

\* Entry to the first await: the skip path returns at once, otherwise the
\* prompt is built and generateContent is issued.
CallEnter ==
    /\ call.pc = "entry"
    /\ IF InvalidContent(call.content)
       THEN /\ call' = [call EXCEPT !.pc = "done", !.result = Resolved(DefaultEnrichment)]
            /\ UNCHANGED modelCalls
       ELSE /\ call' = [call EXCEPT !.pc = "awaiting"]
            /\ modelCalls' = modelCalls + 1
    /\ UNCHANGED procVars

\* generateContent settles; the rest of the try block runs to the return.
CallSettle ==
    /\ call.pc = "awaiting"
    /\ call' = [call EXCEPT !.pc = "done", !.result = EnrichSettle(call.response)]
    /\ UNCHANGED <<modelCalls, procVars>>

----------------------------------------------------------------------------
(* Inputs: the source file, the deterministic model stub, the index client *)

\* The entry points run at module load: testEnrichment() by requiring
\* ./enrichmentService, then indexEnrichedData().
Procs == {"test", "index"}

AiKeys == {"ai_summary", "ai_keywords", "ai_category", "ai_sentiment"}

\* Records of the source: with text content, without content, with content
\* that is no text, and one that already carries an ai_summary field.
RecordSet ==
    { [objectID |-> Str(<<"1">>), content |-> Str(<<"c1">>)],
      [objectID |-> Str(<<"2">>), title |-> Str(<<"t2">>), content |-> Str(<<"c2">>)],
      [objectID |-> Str(<<"3">>), title |-> Str(<<"t3">>)],
      [objectID |-> Str(<<"4">>), content |-> Num(<<"42">>)],
      [objectID |-> Str(<<"5">>), content |-> Str(<<"c1">>), ai_summary |-> Str(<<"old">>)] }

\* The source: readFile fails, JSON.parse fails, or a collection of records.
Files ==
    { [status |-> "missing", articles |-> <<>>],
      [status |-> "corrupt", articles |-> <<>>] }
    \cup { [status |-> "ok", articles |-> as] : as \in SeqsUpTo(RecordSet, MaxArticles) }

\* Responses of the stubbed model: an error, the fenced scenario answer,
\* prose without JSON, a fenced answer with a summary only.
StubResponses ==
    { Reject("network"),
      Resolve(ResultOf(Str(<<"FENCE", "json", "\n", "{", "M", "}", "\n", "FENCE">>)),
              FullPayload),
      Resolve(ResultOf(Str(<<"x", " ", "x">>)), FullPayload),
      Resolve(ResultOf(Str(<<"{", "M", "}">>)),
              PayloadOf(Str(<<"Solar costs dropped.">>), Absent, Absent, Absent)) }

\* Outcomes of client.saveObjects: an error, or a response array.
SaveResponses ==
    { [kind |-> "reject", entries |-> <<>>],
      [kind |-> "resolve", entries |-> <<>>],
      [kind |-> "resolve", entries |-> << [taskID |-> Undefined] >>],
      [kind |-> "resolve", entries |-> << [taskID |-> Null] >>],
      [kind |-> "resolve", entries |-> << [taskID |-> Num(<<"0">>)] >>],
      [kind |-> "resolve", entries |-> << [taskID |-> Num(<<"7">>)] >>] }

NoSaveResponse == [kind |-> "none", entries |-> <<>>]

----------------------------------------------------------------------------
(* The batch processor: processArticles *)

\* Mutant of InitialEnriched: one array at module scope, shared by the invocations.
InitialEnrichedShared == enrichedArticles["test"]

\* const enrichedArticles = []
InitialEnriched == <<>>

\* Mutant of ProcessCatch: the handler rethrows.
ProcessCatchRethrow(error) == Rejected(<<>>)

\* catch (error) { console.error(...); return []; }
ProcessCatch(error) == Resolved(<<>>)

\* Mutant of Merge: a key is set only when the enrichment has a value for it.
MergeOnlyValues(article, e) ==
    LET ai == [ai_summary |-> e.summary, ai_keywords |-> e.keywords,
               ai_category |-> e.category, ai_sentiment |-> e.sentiment]
    IN  [k \in DOMAIN article \cup {x \in AiKeys : ai[x] # Null} |->
            IF k \in AiKeys /\ ai[k] # Null THEN ai[k] ELSE article[k]]

\* {...article, ai_summary: ..., ai_keywords: ..., ai_category: ..., ai_sentiment: ...}
Merge(article, e) ==
    [k \in DOMAIN article \cup AiKeys |->
        CASE k = "ai_summary" -> e.summary
          [] k = "ai_keywords" -> e.keywords
          [] k = "ai_category" -> e.category
          [] k = "ai_sentiment" -> e.sentiment
          [] OTHER -> article[k]]

\* Mutant of Push: the record is put in front.
PushFront(list, record) == <<record>> \o list

\* enrichedArticles.push(record)
Push(list, record) == Append(list, record)

\* One turn of the for..of loop with enr collected so far, up to its await:
\* past the last article the function returns enr; otherwise it calls
\* enrichContentWithAI(article.content, article.objectID), which returns a
\* resolved promise on the skip path and else issues generateContent.
Iterate(p, arts, k, enr) ==
    /\ idx' = [idx EXCEPT ![p] = k]
    /\ enrichedArticles' = [enrichedArticles EXCEPT ![p] = enr]
    /\ IF k > Len(arts)
       THEN /\ pc' = [pc EXCEPT ![p] = "returned"]
            /\ ret' = [ret EXCEPT ![p] = Resolved(enr)]
            /\ UNCHANGED <<enrichment, outstanding, modelCalls>>
       ELSE IF InvalidContent(Get(arts[k], "content"))
       THEN /\ pc' = [pc EXCEPT ![p] = "awaitEnrich"]
            /\ enrichment' = [enrichment EXCEPT ![p] = Resolved(DefaultEnrichment)]
            /\ UNCHANGED <<ret, outstanding, modelCalls>>
       ELSE /\ pc' = [pc EXCEPT ![p] = "awaitModel"]
            /\ enrichment' = [enrichment EXCEPT ![p] = Pending]
            /\ outstanding' = outstanding + 1
            /\ modelCalls' = modelCalls + 1
            /\ UNCHANGED ret

\* testEnrichment() at the end of enrichmentService: runs into processArticles
\* up to await fs.readFile.
TestEnrichment ==
    /\ pc["test"] = "init"
    /\ pc' = [pc EXCEPT !["test"] = "reading"]
    /\ UNCHANGED <<file, stub, articles, idx, enrichedArticles, enrichment, ret, exit,
                   outstanding, modelCalls, saveCalls, waitCalls, saveResponse, call>>

\* indexEnrichedData() at the end of indexAlgolia, after the require of
\* enrichmentService has run: runs into processArticles up to await fs.readFile.
IndexEnrichedData ==
    /\ pc["index"] = "init"
    /\ pc["test"] # "init"
    /\ pc' = [pc EXCEPT !["index"] = "reading"]
    /\ UNCHANGED <<file, stub, articles, idx, enrichedArticles, enrichment, ret, exit,
                   outstanding, modelCalls, saveCalls, waitCalls, saveResponse, call>>

\* fs.readFile settles; JSON.parse; the loop starts.
ReadFileSettle(p) ==
    /\ pc[p] = "reading"
    /\ IF file.status # "ok"
       THEN /\ pc' = [pc EXCEPT ![p] = "returned"]
            /\ ret' = [ret EXCEPT ![p] = ProcessCatch(file.status)]
            /\ UNCHANGED <<articles, idx, enrichedArticles, enrichment, outstanding,
                           modelCalls>>
       ELSE /\ articles' = [articles EXCEPT ![p] = file.articles]
            /\ Iterate(p, file.articles, 1, InitialEnriched)
    /\ UNCHANGED <<file, stub, exit, saveCalls, waitCalls, saveResponse, call>>

\* generateContent settles with the stub's response for the content sent; the
\* try block of enrichContentWithAI runs to its return.
ModelSettle(p) ==
    /\ pc[p] = "awaitModel"
    /\ enrichment' = [enrichment EXCEPT
                        ![p] = EnrichSettle(stub[articles[p][idx[p]].content])]
    /\ outstanding' = outstanding - 1
    /\ pc' = [pc EXCEPT ![p] = "awaitEnrich"]
    /\ UNCHANGED <<file, stub, articles, idx, enrichedArticles, ret, exit, modelCalls,
                   saveCalls, waitCalls, saveResponse, call>>

\* processArticles resumes from await enrichContentWithAI(...): the merged
\* record is pushed and the loop goes on; a rejection would land in the catch.
EnrichReturn(p) ==
    /\ pc[p] = "awaitEnrich"
    /\ IF enrichment[p].status = "rejected"
       THEN /\ pc' = [pc EXCEPT ![p] = "returned"]
            /\ ret' = [ret EXCEPT ![p] = ProcessCatch("enrichment")]
            /\ UNCHANGED <<idx, enrichedArticles, enrichment, outstanding, modelCalls>>
       ELSE Iterate(p, articles[p], idx[p] + 1,
                    Push(enrichedArticles[p],
                         Merge(articles[p][idx[p]], enrichment[p].value)))
    /\ UNCHANGED <<file, stub, articles, exit, saveCalls, waitCalls, saveResponse, call>>

----------------------------------------------------------------------------
(* The entry points: testEnrichment and indexEnrichedData *)

\* testEnrichment resumes from await processArticles(...), reports and ends;
\* it has no try block.
TestResume ==
    /\ pc["test"] = "returned"
    /\ pc' = [pc EXCEPT !["test"] = "done"]
    /\ exit' = [exit EXCEPT !["test"] =
                  IF ret["test"].status = "rejected" THEN Rejected(Null) ELSE Resolved(Null)]
    /\ UNCHANGED <<file, stub, articles, idx, enrichedArticles, enrichment, ret,
                   outstanding, modelCalls, saveCalls, waitCalls, saveResponse, call>>

\* catch (error) { console.error(...) } of indexEnrichedData: the function
\* ends normally.
IndexCatch(error) == Resolved(Null)

\* Mutant of TaskIDMissing: the null test is left out.
TaskIDMissingUndefinedOnly(taskID) == TypeOf(taskID) = "undefined"

\* typeof taskID === 'undefined' || taskID === null
TaskIDMissing(taskID) == TypeOf(taskID) = "undefined" \/ taskID = Null

\* indexEnrichedData resumes from await processArticles(...): nothing to index
\* for an empty sequence, otherwise client.saveObjects is issued.
IndexResume ==
    /\ pc["index"] = "returned"
    /\ IF ret["index"].status = "rejected"
       THEN /\ pc' = [pc EXCEPT !["index"] = "done"]
            /\ exit' = [exit EXCEPT !["index"] = IndexCatch("processArticles")]
            /\ UNCHANGED saveCalls
       ELSE IF Len(ret["index"].value) = 0
       THEN /\ pc' = [pc EXCEPT !["index"] = "done"]
            /\ exit' = [exit EXCEPT !["index"] = Resolved(Null)]
            /\ UNCHANGED saveCalls
       ELSE /\ pc' = [pc EXCEPT !["index"] = "saving"]
            /\ saveCalls' = saveCalls + 1
            /\ UNCHANGED exit
    /\ UNCHANGED <<file, stub, articles, idx, enrichedArticles, enrichment, ret,
                   outstanding, modelCalls, waitCalls, saveResponse, call>>

\* client.saveObjects settles: an error, a response without first entry or
\* without task id all land in the catch; otherwise client.waitForTask is issued.
SaveSettle(response) ==
    /\ pc["index"] = "saving"
    /\ saveResponse' = response
    /\ IF response.kind = "reject"
       THEN /\ pc' = [pc EXCEPT !["index"] = "done"]
            /\ exit' = [exit EXCEPT !["index"] = IndexCatch("saveObjects")]
            /\ UNCHANGED waitCalls
       ELSE IF Len(response.entries) = 0
       THEN /\ pc' = [pc EXCEPT !["index"] = "done"]
            /\ exit' = [exit EXCEPT !["index"] = IndexCatch("TypeError")]
            /\ UNCHANGED waitCalls
       ELSE IF TaskIDMissing(response.entries[1].taskID)
       THEN /\ pc' = [pc EXCEPT !["index"] = "done"]
            /\ exit' = [exit EXCEPT !["index"] =
                          IndexCatch("Algolia indexing task ID missing.")]
            /\ UNCHANGED waitCalls
       ELSE /\ pc' = [pc EXCEPT !["index"] = "waiting"]
            /\ waitCalls' = waitCalls + 1
            /\ UNCHANGED exit
    /\ UNCHANGED <<file, stub, articles, idx, enrichedArticles, enrichment, ret,
                   outstanding, modelCalls, saveCalls, call>>

\* client.waitForTask settles: the function ends, through the catch on an error.
WaitSettle(ok) ==
    /\ pc["index"] = "waiting"
    /\ pc' = [pc EXCEPT !["index"] = "done"]
    /\ exit' = [exit EXCEPT !["index"] =
                  IF ok THEN Resolved(Null) ELSE IndexCatch("waitForTask")]
    /\ UNCHANGED <<file, stub, articles, idx, enrichedArticles, enrichment, ret,
                   outstanding, modelCalls, saveCalls, waitCalls, saveResponse, call>>

----------------------------------------------------------------------------
(* Specifications *)

\* No direct call of enrichContentWithAI is in progress.
IdleCall ==
    [pc |-> "idle", content |-> Undefined, response |-> Reject("network"),
     result |-> Pending]

\* Module state before either entry point has run.
ProcInit ==
    /\ pc = [p \in Procs |-> "init"]
    /\ articles = [p \in Procs |-> <<>>]
    /\ idx = [p \in Procs |-> 0]
    /\ enrichedArticles = [p \in Procs |-> <<>>]
    /\ enrichment = [p \in Procs |-> Pending]
    /\ ret = [p \in Procs |-> Pending]
    /\ exit = [p \in Procs |-> Pending]
    /\ outstanding = 0
    /\ saveCalls = 0
    /\ waitCalls = 0
    /\ saveResponse = NoSaveResponse

\* A process run: node indexAlgolia.js on some source with some stubbed model.
Init ==
    /\ file \in Files
    /\ stub \in [ValidContents -> StubResponses]
    /\ ProcInit
    /\ modelCalls = 0
    /\ call = IdleCall

Next ==
    \/ TestEnrichment
    \/ IndexEnrichedData
    \/ \E p \in Procs : ReadFileSettle(p)
    \/ \E p \in Procs : ModelSettle(p)
    \/ \E p \in Procs : EnrichReturn(p)
    \/ TestResume
    \/ IndexResume
    \/ \E response \in SaveResponses : SaveSettle(response)
    \/ \E ok \in BOOLEAN : WaitSettle(ok)

Spec == Init /\ [][Next]_vars

\* enrichContentWithAI(content, objectId) has been called and has not run yet;
\* response is what generateContent will answer.
EntryCall(content, response) ==
    [pc |-> "entry", content |-> content, response |-> response, result |-> Pending]

\* One call enrichContentWithAI(content, objectId) with one outcome of the
\* model call; the entry points do not run.
InitEnrich ==
    /\ file = [status |-> "missing", articles |-> <<>>]
    /\ stub = [c \in ValidContents |-> Reject("network")]
    /\ ProcInit
    /\ modelCalls = 0
    /\ \/ \E r \in TextlessResponses : call = EntryCall(Str(<<"c1">>), r)
       \/ \E pre \in Prefixes, core \in Cores, post \in Suffixes :
            call = EntryCall(Str(<<"c1">>),
                             Resolve(ResultOf(Str(pre \o core \o post)), FullPayload))
       \/ \E t \in PayloadTexts, su \in SummaryValues, kw \in KeywordsValues,
             ca \in CategoryValues, se \in SentimentValues :
            /\ PayloadOf(su, kw, ca, se) # <<>>
            /\ call = EntryCall(Str(<<"c1">>),
                                Resolve(ResultOf(Str(t)), PayloadOf(su, kw, ca, se)))
       \/ \E c \in InvalidContents \cup ValidContents, r \in StubResponses :
            call = EntryCall(c, r)

NextEnrich == CallEnter \/ CallSettle

SpecEnrich == InitEnrich /\ [][NextEnrich]_vars

----------------------------------------------------------------------------
(* Claims *)

\* The text of the response of the direct call, when it has one.
CallHasText ==
    /\ call.response.kind = "resolve"
    /\ ~InvalidShape(call.response.result)
    /\ call.response.result.candidates[1].parts[1].text.t = "string"

CallText == call.response.result.candidates[1].parts[1].text.s

\* The substring from the first "{" to the last "}" of the raw response text
\* exists and parses.
CallTextParses ==
    /\ IndexOf(CallText, "{") # -1
    /\ LastIndexOf(CallText, "}") > IndexOf(CallText, "{")
    /\ JSONParse(Substring(CallText, IndexOf(CallText, "{"),
                           LastIndexOf(CallText, "}") + 1),
                 call.response.payload).ok

\* C1: enrichContentWithAI never fails: for a text content and any outcome of
\* the model call the promise resolves and never rejects, and when the call
\* rejects, the response has no candidate, content parts or text, the text has
\* no "{" followed later by a "}", or the brace-delimited substring does not
\* parse, it resolves to the all-default result.
C1_NeverFails ==
    (call.pc = "done" /\ ~InvalidContent(call.content)) =>
        /\ call.result.status = "resolved"
        /\ (~(CallHasText /\ CallTextParses) => call.result.value = DefaultEnrichment)

\* Reached: a response whose braces are in reversed order has been degraded to
\* the all-default result.
C1_Witness ==
    /\ call.pc = "done"
    /\ CallHasText
    /\ IndexOf(CallText, "{") > LastIndexOf(CallText, "}")
    /\ LastIndexOf(CallText, "}") # -1
    /\ call.result = Resolved(DefaultEnrichment)

\* C2: for content that is absent, empty or not text, enrichContentWithAI
\* returns the all-default result and generateContent is not invoked.
C2_SkipWithoutModelCall ==
    (call.pc = "done" /\ (call.content.t # "string" \/ call.content.s = <<>>)) =>
        /\ call.result = Resolved(DefaultEnrichment)
        /\ modelCalls = 0

\* Reached: a call with a number as content has returned without a model call.
C2_Witness ==
    /\ call.pc = "done"
    /\ call.content = Num(<<"42">>)
    /\ call.result = Resolved(DefaultEnrichment)
    /\ modelCalls = 0

\* C3 as stated: for a loaded input of N records processArticles yields N
\* records, the i-th for the i-th input, each with every original field at its
\* original value.
C3_Original ==
    \A p \in Procs :
        (file.status = "ok" /\ ret[p].status # "pending") =>
            /\ ret[p].status = "resolved"
            /\ Len(ret[p].value) = Len(file.articles)
            /\ \A i \in 1..Len(file.articles) :
                 \A k \in DOMAIN file.articles[i] :
                    /\ k \in DOMAIN ret[p].value[i]
                    /\ ret[p].value[i][k] = file.articles[i][k]

\* C3 amended: for a loaded input of N records processArticles yields N
\* records, the i-th for the i-th input, each with every original field other
\* than ai_summary, ai_keywords, ai_category and ai_sentiment at its original
\* value.
C3_OrderPreserved ==
    \A p \in Procs :
        (file.status = "ok" /\ ret[p].status # "pending") =>
            /\ ret[p].status = "resolved"
            /\ Len(ret[p].value) = Len(file.articles)
            /\ \A i \in 1..Len(file.articles) :
                 \A k \in DOMAIN file.articles[i] \ AiKeys :
                    /\ k \in DOMAIN ret[p].value[i]
                    /\ ret[p].value[i][k] = file.articles[i][k]

\* Reached: processArticles has returned for an input of two different records.
C3_Witness ==
    /\ file.status = "ok"
    /\ Len(file.articles) = 2
    /\ file.articles[1] # file.articles[2]
    /\ ret["index"].status = "resolved"
    /\ Len(ret["index"].value) = 2

\* C4: in every state of a process run at most one generateContent call is
\* outstanding, and an invocation issues the call for a record only when the
\* records before it have been enriched and collected.
C4_OneCallOutstanding ==
    /\ outstanding <= 1
    /\ \A p \in Procs :
         pc[p] = "awaitModel" => Len(enrichedArticles[p]) = idx[p] - 1

\* C5: when reading the source fails or its content does not parse,
\* processArticles resolves to the empty sequence, never rejects, and no model
\* call is made.
C5_BadSourceYieldsEmpty ==
    file.status # "ok" =>
        /\ modelCalls = 0
        /\ \A p \in Procs :
             /\ ret[p].status # "rejected"
             /\ pc[p] \in {"returned", "saving", "waiting", "done"} =>
                  (ret[p].status = "resolved" /\ Len(ret[p].value) = 0)

\* Reached: a run on a corrupt source has ended.
C5_Witness ==
    /\ file.status = "corrupt"
    /\ pc["index"] = "done"
    /\ ret["index"].status = "resolved"

\* The enrichment of a record fails: its content is unusable, the model call
\* fails, or the response text has no opening brace.
EnrichmentFails(article) ==
    \/ "content" \notin DOMAIN article
    \/ article.content \notin ValidContents
    \/ stub[article.content].kind = "reject"
    \/ IndexOf(stub[article.content].result.candidates[1].parts[1].text.s, "{") = -1

\* C6: every record processArticles returns carries the four keys ai_summary,
\* ai_keywords, ai_category and ai_sentiment; when the record's enrichment
\* failed they hold absent, the empty sequence, absent, absent.
C6_FourKeysAlways ==
    \A p \in Procs :
        ret[p].status = "resolved" =>
            \A i \in 1..Len(ret[p].value) :
                /\ AiKeys \subseteq DOMAIN ret[p].value[i]
                /\ EnrichmentFails(file.articles[i]) =>
                     /\ ret[p].value[i]["ai_summary"] = Null
                     /\ ret[p].value[i]["ai_keywords"] = Arr(<<>>)
                     /\ ret[p].value[i]["ai_category"] = Null
                     /\ ret[p].value[i]["ai_sentiment"] = Null

\* Reached: a returned record whose model call failed holds the defaults.
C6_Witness ==
    /\ ret["index"].status = "resolved"
    /\ Len(ret["index"].value) >= 1
    /\ "content" \in DOMAIN file.articles[1]
    /\ file.articles[1].content \in ValidContents
    /\ stub[file.articles[1].content].kind = "reject"
    /\ ret["index"].value[1]["ai_keywords"] = Arr(<<>>)

\* The response text between the fenced-block markers: a leading line of
\* FENCE json and a trailing line of FENCE.
Decorate(text) == <<"FENCE", "json", "\n">> \o text \o <<"\n", "FENCE">>

\* C7: the result for a response text is the result for the same text
\* surrounded by the fenced-block markers.
C7_DecorationIndependent ==
    (call.pc = "done" /\ ~InvalidContent(call.content) /\ CallHasText) =>
        call.result = EnrichSettle(Resolve(ResultOf(Str(Decorate(CallText))),
                                           call.response.payload))

\* Reached: an undecorated response wrapping a valid payload has been
\* normalized to a result that is not the default.
C7_Witness ==
    /\ call.pc = "done"
    /\ CallHasText
    /\ CallText = <<"{", "M", "}">>
    /\ call.response.payload = FullPayload
    /\ call.result.status = "resolved"
    /\ call.result.value # DefaultEnrichment

\* C8: a payload that parses is normalized and not degraded: summary, category
\* and sentiment are the payload's values, or absent when missing or falsy;
\* keywords is the payload's keywords text split on "," with each piece
\* trimmed, or the empty sequence when keywords is missing.
C8_ParsedIsNormalized ==
    (call.pc = "done" /\ ~InvalidContent(call.content) /\ CallHasText /\ CallTextParses) =>
        LET payload == JSONParse(Substring(CallText, IndexOf(CallText, "{"),
                                           LastIndexOf(CallText, "}") + 1),
                                 call.response.payload).value
            kw == Get(payload, "keywords")
        IN  /\ call.result.status = "resolved"
            /\ call.result.value.summary = OrElse(Get(payload, "summary"), Null)
            /\ call.result.value.category = OrElse(Get(payload, "category"), Null)
            /\ call.result.value.sentiment = OrElse(Get(payload, "sentiment"), Null)
            /\ kw = Undefined => call.result.value.keywords = Arr(<<>>)
            /\ (kw.t = "string" /\ kw.s # <<>>) =>
                 call.result.value.keywords = Arr(MapTrim(Split(kw.s, ",")))

\* C9: with an unchanged source and a deterministic stub, the two invocations
\* of processArticles of a run return identical sequences.
C9_Idempotent ==
    (ret["test"].status # "pending" /\ ret["index"].status # "pending") =>
        ret["test"] = ret["index"]

\* Reached: both invocations have returned two records.
C9_Witness ==
    /\ ret["test"].status = "resolved"
    /\ ret["index"].status = "resolved"
    /\ Len(ret["test"].value) = 2
    /\ Len(ret["index"].value) = 2

\* C10: saveObjects is called at most once and only after processArticles has
\* resolved with a non-empty sequence; waitForTask is called only after
\* saveObjects has answered with a first entry whose taskID is neither
\* undefined nor null; indexEnrichedData never rejects.
C10_PublishingOrder ==
    /\ saveCalls <= 1
    /\ saveCalls >= 1 =>
         (ret["index"].status = "resolved" /\ Len(ret["index"].value) > 0)
    /\ waitCalls <= saveCalls
    /\ waitCalls >= 1 =>
         /\ saveResponse.kind = "resolve"
         /\ Len(saveResponse.entries) >= 1
         /\ saveResponse.entries[1].taskID.t \notin {"undefined", "null"}
    /\ exit["index"].status # "rejected"

\* Reached: the run has ended after a wait for the indexing task.
C10_Witness ==
    /\ pc["index"] = "done"
    /\ saveCalls = 1
    /\ waitCalls = 1
    /\ exit["index"].status = "resolved"

====
